---- MODULE Spec2Model ----
(***************************************************************************)
(* A model of arch/powerpc/lib/code-patching.c (CONFIG_STRICT_KERNEL_RWX,  *)
(* CONFIG_PPC_BOOK3S_64): the patch facade (patch_instruction and its      *)
(* unlocked and branch variants), the secure write channel (map_patch,     *)
(* __patch_instruction through the scratch alias, unmap_patch) and the     *)
(* branch codec (create_branch, create_cond_branch, branch_target, ...).   *)
(*                                                                         *)
(* Number representation.  TLC integers are 32 bits wide.  A u32           *)
(* instruction word is held as the int32 with the same bit pattern.  A     *)
(* long / unsigned long is held as its two's-complement signed value, and  *)
(* every address and offset drawn as an input has a magnitude below 2^30,  *)
(* so that no 64-bit sum or difference the code forms on them wraps.       *)
(***************************************************************************)
EXTENDS Integers, Sequences, FiniteSets, TLC

(***************************************************************************)
(* Bounds of the model.                                                    *)
(***************************************************************************)
NumCpus == 2

MaxCalls == 2

PAGE_SHIFT == 3

NrWpSlots == 2

(***************************************************************************)
(* Bit operations on the representation above.                             *)
(***************************************************************************)
RECURSIVE BitAnd(_, _)
BitAnd(a, b) ==
    IF a = 0 \/ b = 0 THEN 0
    ELSE (a % 2) * (b % 2) + 2 * BitAnd(a \div 2, b \div 2)

RECURSIVE BitOr(_, _)
BitOr(a, b) ==
    IF a = 0 THEN b
    ELSE IF b = 0 THEN a
    ELSE (IF a % 2 = 1 \/ b % 2 = 1 THEN 1 ELSE 0) + 2 * BitOr(a \div 2, b \div 2)

\* x & m for a two's-complement x and a mask 0 <= m < 2^26 (every mask of the
\* file is: 0x3, 0xFFFC, 0x8000, 0x2000000, 0x3FF0003, 0x3FFFFFC).
And(x, m) == BitAnd(x % 67108864, m)

\* a | b | c for the three disjoint-or-not fields of a branch word.
Or3(a, b, c) == BitOr(a, BitOr(b, c))

(***************************************************************************)
(* struct ppc_inst and its accessors (asm/inst.h).                         *)
(***************************************************************************)
ppc_inst(x) == [val |-> x, suffix |-> 255]

ppc_inst_prefix(x, y) == [val |-> x, suffix |-> y]

ppc_inst_val(i) == i.val

ppc_inst_primary_opcode(i) == (i.val \div 67108864) % 64

ppc_inst_prefixed(i) == ppc_inst_primary_opcode(i) = 1

ppc_inst_equal(x, y) ==
    /\ x.val = y.val
    /\ (ppc_inst_prefixed(x) => x.suffix = y.suffix)

(***************************************************************************)
(* The branch codec.                                                       *)
(***************************************************************************)
BRANCH_SET_LINK == 1

BRANCH_ABSOLUTE == 2

is_offset_in_branch_range_lt(offset) ==
    offset >= -33554432 /\ offset < 33554428 /\ And(offset, 3) = 0

is_offset_in_branch_range(offset) ==
    offset >= -33554432 /\ offset <= 33554428 /\ And(offset, 3) = 0

\* create_branch with the conditional family's flag mask, 0x3FF0003.
create_branch_wide_mask(addr, target, flags) ==
    LET offset == IF And(flags, BRANCH_ABSOLUTE) = 0 THEN target - addr ELSE target
    IN  IF ~is_offset_in_branch_range(offset)
        THEN [err |-> 1, instr |-> ppc_inst(0)]
        ELSE [err |-> 0,
              instr |-> ppc_inst(Or3(1207959552, And(flags, 67043331),
                                     And(offset, 67108860)))]

\* The result of create_branch: its return value and *instr afterwards.
create_branch(addr, target, flags) ==
    LET offset == IF And(flags, BRANCH_ABSOLUTE) = 0 THEN target - addr ELSE target
    IN  IF ~is_offset_in_branch_range(offset)
        THEN [err |-> 1, instr |-> ppc_inst(0)]
        ELSE [err |-> 0,
              instr |-> ppc_inst(Or3(1207959552, And(flags, 3), And(offset, 67108860)))]

\* The conditional family's check with the upper limit one slot short.
cond_offset_ok_short(offset) ==
    ~(offset < -32768 \/ offset > 32767 - 4 \/ And(offset, 3) # 0)

cond_offset_ok(offset) ==
    ~(offset < -32768 \/ offset > 32767 \/ And(offset, 3) # 0)

\* The result of create_cond_branch; old is *instr before the call, which a
\* failing call leaves as it was.
create_cond_branch(old, addr, target, flags) ==
    LET offset == IF And(flags, BRANCH_ABSOLUTE) = 0 THEN target - addr ELSE target
    IN  IF ~cond_offset_ok(offset)
        THEN [err |-> 1, instr |-> old]
        ELSE [err |-> 0,
              instr |-> ppc_inst(Or3(1073741824, And(flags, 67043331), And(offset, 65532)))]

branch_opcode(i) == ppc_inst_primary_opcode(i) % 64

instr_is_branch_iform(i) == branch_opcode(i) = 18

instr_is_branch_bform(i) == branch_opcode(i) = 16

\* branch_iform_target without the sign extension of the immediate.
branch_iform_target_unsigned(i, at) ==
    LET imm0 == And(ppc_inst_val(i), 67108860)
    IN  IF And(ppc_inst_val(i), BRANCH_ABSOLUTE) = 0 THEN imm0 + at ELSE imm0

\* branch_iform_target(instr) for the word i stored at address at.
branch_iform_target(i, at) ==
    LET imm0 == And(ppc_inst_val(i), 67108860)
        imm1 == IF And(imm0, 33554432) # 0 THEN imm0 - 67108864 ELSE imm0
    IN  IF And(ppc_inst_val(i), BRANCH_ABSOLUTE) = 0 THEN imm1 + at ELSE imm1

\* branch_bform_target without the sign extension of the immediate.
branch_bform_target_unsigned(i, at) ==
    LET imm0 == And(ppc_inst_val(i), 65532)
    IN  IF And(ppc_inst_val(i), BRANCH_ABSOLUTE) = 0 THEN imm0 + at ELSE imm0

branch_bform_target(i, at) ==
    LET imm0 == And(ppc_inst_val(i), 65532)
        imm1 == IF And(imm0, 32768) # 0 THEN imm0 - 65536 ELSE imm0
    IN  IF And(ppc_inst_val(i), BRANCH_ABSOLUTE) = 0 THEN imm1 + at ELSE imm1

branch_target(i, at) ==
    IF instr_is_branch_iform(i) THEN branch_iform_target(i, at)
    ELSE IF instr_is_branch_bform(i) THEN branch_bform_target(i, at)
    ELSE 0

instr_is_branch_to_addr(i, at, addr) ==
    IF instr_is_branch_iform(i) \/ instr_is_branch_bform(i)
    THEN branch_target(i, at) = addr
    ELSE FALSE

\* is_conditional_branch without the bctar case.
is_conditional_branch_no_bctar(i) ==
    LET opcode == ppc_inst_primary_opcode(i)
        xo == (ppc_inst_val(i) % 2048) \div 2
    IN  \/ opcode = 16
        \/ opcode = 19 /\ xo \in {16, 528}

\* is_conditional_branch; xo is (val >> 1) & 0x3ff.
is_conditional_branch(i) ==
    LET opcode == ppc_inst_primary_opcode(i)
        xo == (ppc_inst_val(i) % 2048) \div 2
    IN  \/ opcode = 16
        \/ opcode = 19 /\ xo \in {16, 528, 560}

\* translate_branch that encodes from the old address.
translate_branch_from_src(old, i, dest, src) ==
    LET target == branch_target(i, src)
    IN  IF instr_is_branch_iform(i)
        THEN create_branch(src, target, ppc_inst_val(i))
        ELSE IF instr_is_branch_bform(i)
        THEN create_cond_branch(old, src, target, ppc_inst_val(i))
        ELSE [err |-> 1, instr |-> old]

\* The result of translate_branch(instr, dest, src) for the word i stored at
\* src; old is *instr before the call.
translate_branch(old, i, dest, src) ==
    LET target == branch_target(i, src)
    IN  IF instr_is_branch_iform(i)
        THEN create_branch(dest, target, ppc_inst_val(i))
        ELSE IF instr_is_branch_bform(i)
        THEN create_cond_branch(old, dest, target, ppc_inst_val(i))
        ELSE [err |-> 1, instr |-> old]

(***************************************************************************)
(* Memory layout.  Pages hold 2^PAGE_SHIFT bytes.  The kernel's linear    *)
(* mapping holds two pages, the text page (frame 0) and the init section   *)
(* (frame 1); one module page lives in the vmalloc area (frame 2).  User   *)
(* addresses below DEFAULT_MAP_WINDOW belong to the address space that is   *)
(* active on the cpu.                                                      *)
(***************************************************************************)
PAGE_SIZE == 2 ^ PAGE_SHIFT

\* x & PAGE_MASK
PAGE_MASK(x) == x - (x % PAGE_SIZE)

offset_in_page(a) == a % PAGE_SIZE

DEFAULT_MAP_WINDOW == 8 * PAGE_SIZE

KERNELBASE == 64 * PAGE_SIZE

VMALLOC_START == 128 * PAGE_SIZE

init_begin == KERNELBASE + PAGE_SIZE

init_end == KERNELBASE + 2 * PAGE_SIZE

init_section_contains(a, size) == a >= init_begin /\ a + size <= init_end

is_vmalloc_or_module_addr(a) == a >= VMALLOC_START

virt_to_page(a) == (a - KERNELBASE) \div PAGE_SIZE

vmalloc_to_page(a) == 2 + ((a - VMALLOC_START) \div PAGE_SIZE)

Frames == 0 .. 2

NoFrame == 0 - 1

WordsPerPage == PAGE_SIZE \div 4

PhysWords == Frames \X (0 .. WordsPerPage - 1)

\* The kernel's own mapping of a kernel virtual address.
KernelMapped(a) ==
    \/ a >= KERNELBASE /\ a < KERNELBASE + 2 * PAGE_SIZE
    \/ a >= VMALLOC_START /\ a < VMALLOC_START + PAGE_SIZE

KernelPhys(a) ==
    << IF is_vmalloc_or_module_addr(a) THEN vmalloc_to_page(a) ELSE virt_to_page(a),
       offset_in_page(a) \div 4 >>

\* The words an instruction occupies, in store order.
InstWords(i) == IF ppc_inst_prefixed(i) THEN <<i.val, i.suffix>> ELSE <<i.val>>

\* ppc_inst_read(addr) on the memory m, through the kernel's mapping.
ppc_inst_read(m, a) ==
    LET w == m[KernelPhys(a)]
    IN  IF ppc_inst_prefixed(ppc_inst(w))
        THEN ppc_inst_prefix(w, IF KernelMapped(a + 4) THEN m[KernelPhys(a + 4)] ELSE 0)
        ELSE ppc_inst(w)

(***************************************************************************)
(* Inputs.                                                                 *)
(***************************************************************************)
Cpus == 1 .. NumCpus

\* The cpu that boots the kernel: the only one running before poking_init.
BootCpu == CHOOSE u \in Cpus : \A v \in Cpus : u <= v

Slots == 0 .. NrWpSlots - 1

TextLo == KERNELBASE

InitLo == init_begin

ModHi == VMALLOC_START + PAGE_SIZE - 4

\* Patch targets: in-page offset 0 of the text page, the first word of the
\* init section, and the last instruction slot of the module page.
Targets == {TextLo, InitLo, ModHi}

\* mflr r0, and the prefixed instruction of test_prefixed_patching.
Instrs == {ppc_inst(2080899750), ppc_inst_prefix(67108864, 0)}

\* patch_branch arguments <<addr, target, flags>>: a branch to self, a
\* misaligned target, a target out of range, a misaligned absolute target.
BranchArgs ==
    {<<TextLo, TextLo, 0>>, <<TextLo, TextLo + 2, BRANCH_SET_LINK>>,
     <<ModHi, ModHi + 33554432, 0>>, <<InitLo, 2, BRANCH_ABSOLUTE>>}

\* get_random_long() values.
RandomLongs == {0, 5, 5 * PAGE_SIZE + 1, 6 * PAGE_SIZE, 7 * PAGE_SIZE - 1}

SlbErrs == {0, 0 - 14}

HashErrs == {0, 1}

(***************************************************************************)
(* State.                                                                  *)
(***************************************************************************)
VARIABLES
    patching_mm,      \* NullMm until poking_init
    patching_addr,
    init_mem_is_free,
    radix_enabled,    \* MMU mode, fixed at boot
    brk_available,    \* ppc_breakpoint_available(), fixed at boot
    patching_lock,    \* 0 when free, else the owning cpu
    ptl,              \* page-table lock of patching_mm: 0 or the owning cpu
    pte,              \* the page-table entry at patching_addr in patching_mm
    tlb,              \* per cpu: the cached translation of the scratch page
    mem,              \* physical memory, by <<frame, word index>>
    active_mm,        \* per cpu: current->active_mm
    irqs_on,          \* per cpu: interrupts enabled
    hw_brk,           \* per cpu: the hardware breakpoint slots
    irqflags,         \* per cpu: the flags lock_patching returned to its caller
    pc,               \* per cpu: where the cpu is
    frame,            \* per cpu: arguments and locals of the call in progress
    last,             \* the return made by the step just taken, if any
    ncalls,           \* number of patch calls made so far
    codec             \* the codec call of the codec specification

vars == <<patching_mm, patching_addr, init_mem_is_free, radix_enabled, brk_available,
          patching_lock, ptl, pte, tlb, mem, active_mm, irqs_on, hw_brk, irqflags,
          pc, frame, last, ncalls, codec>>

NullMm == <<"NULL", 0>>

PatchingMm == <<"patching_mm", 0>>

MmOf(u) == <<"mm", u>>

null_brk == [type |-> 0, address |-> 0]

NoPte == [valid |-> FALSE, pfn |-> NoFrame, dirty |-> FALSE, prot |-> "none"]

LockedOps == {"patch_instruction", "patch_branch"}

UnlockedOps == {"patch_instruction_unlocked", "patch_branch_unlocked"}

BranchOps == {"patch_branch", "patch_branch_unlocked"}

EmptyFrame ==
    [op |-> "none", addr |-> 0, instr |-> ppc_inst(0), target |-> 0, bflags |-> 0,
     err |-> 0, path |-> "none", prev |-> NullMm, brk |-> [i \in Slots |-> null_brk],
     ptep |-> FALSE, slb_err |-> 0, hash_err |-> 0,
     wrote |-> FALSE, faulted |-> FALSE, readback |-> "none"]

NoResult ==
    [cpu |-> 0, op |-> "none", addr |-> 0, ret |-> 0, path |-> "none", wrote |-> FALSE,
     readback |-> "none"]

Result(u, fr) ==
    [cpu |-> u, op |-> fr.op, addr |-> fr.addr, ret |-> fr.err, path |-> fr.path,
     wrote |-> fr.wrote, readback |-> fr.readback]

\* The breakpoint a cpu's slot holds at boot: configured or null.  A slot
\* that is not configured (type 0) holds the null breakpoint, and where
\* breakpoints are not available none is ever set.
BootBrk(u, i) ==
    IF brk_available /\ (u + i) % 3 = 2 THEN [type |-> 1, address |-> TextLo]
    ELSE IF brk_available /\ (u + i) % 3 = 1 THEN [type |-> 2, address |-> ModHi]
    ELSE null_brk

IdleCodec == [fn |-> "none", addr |-> 0, target |-> 0, flags |-> 0, err |-> 0,
              instr |-> ppc_inst(0)]

Init ==
    /\ patching_mm = NullMm
    /\ patching_addr = 0
    /\ init_mem_is_free = FALSE
    /\ radix_enabled \in BOOLEAN
    /\ brk_available \in BOOLEAN
    /\ patching_lock = 0
    /\ ptl = 0
    /\ pte = NoPte
    /\ tlb = [u \in Cpus |-> NoFrame]
    /\ mem = [w \in PhysWords |-> 1610612736]
    /\ active_mm = [u \in Cpus |-> MmOf(u)]
    /\ irqs_on = [u \in Cpus |-> u % 2 = 1]
    /\ hw_brk = [u \in Cpus |-> [i \in Slots |-> BootBrk(u, i)]]
    /\ irqflags = [u \in Cpus |-> FALSE]
    /\ pc = [u \in Cpus |-> "idle"]
    /\ frame = [u \in Cpus |-> EmptyFrame]
    /\ last = NoResult
    /\ ncalls = 0
    /\ codec = IdleCodec

(***************************************************************************)
(* Boot-time events.                                                       *)
(***************************************************************************)
\* poking_init() without the PAGE_MASK on the random value.
poking_init_unmasked(r) ==
    /\ patching_mm = NullMm
    /\ pc[BootCpu] = "idle"
    /\ ptl = 0
    /\ patching_mm' = PatchingMm
    /\ patching_addr' = PAGE_SIZE + (r % (DEFAULT_MAP_WINDOW - 2 * PAGE_SIZE))
    /\ last' = NoResult
    /\ UNCHANGED <<init_mem_is_free, radix_enabled, brk_available, patching_lock, ptl,
                   pte, tlb, mem, active_mm, irqs_on, hw_brk, irqflags, pc, frame, ncalls, codec>>

\* poking_init() with get_random_long() = r.  It runs once, on the boot cpu,
\* which is therefore not inside a patch call.  get_locked_pte followed by
\* pte_unmap_unlock leaves the page-table lock as it found it; a BUG_ON that
\* fires halts the machine and has no successor state.
poking_init(r) ==
    /\ patching_mm = NullMm
    /\ pc[BootCpu] = "idle"
    /\ ptl = 0
    /\ patching_mm' = PatchingMm
    /\ patching_addr' = PAGE_SIZE + (PAGE_MASK(r) % (DEFAULT_MAP_WINDOW - 2 * PAGE_SIZE))
    /\ last' = NoResult
    /\ UNCHANGED <<init_mem_is_free, radix_enabled, brk_available, patching_lock, ptl,
                   pte, tlb, mem, active_mm, irqs_on, hw_brk, irqflags, pc, frame, ncalls, codec>>

\* free_initmem(): the init section is released, after poking_init.
free_initmem ==
    /\ patching_mm # NullMm
    /\ ~init_mem_is_free
    /\ init_mem_is_free' = TRUE
    /\ last' = NoResult
    /\ UNCHANGED <<patching_mm, patching_addr, radix_enabled, brk_available,
                   patching_lock, ptl, pte, tlb, mem, active_mm, irqs_on, hw_brk,
                   irqflags, pc, frame, ncalls, codec>>

(***************************************************************************)
(* The patch facade.                                                       *)
(***************************************************************************)
\* A cpu may call when it is not in a call, within the model's call budget;
\* before poking_init only the boot cpu runs.
MayCall(u, at) ==
    /\ pc[u] = at
    /\ ncalls < MaxCalls
    /\ (patching_mm # NullMm \/ u = BootCpu)

\* lock_patching() on cpu u: what it does to the lock, the interrupt state
\* and the flags it returns.  spin_lock_irqsave waits until the lock is free.
LockPatchingNoLock(u) ==
    /\ irqflags' = [irqflags EXCEPT ![u] = irqs_on[u]]
    /\ irqs_on' = [irqs_on EXCEPT ![u] = FALSE]
    /\ UNCHANGED patching_lock

LockPatching(u) ==
    \/ /\ patching_mm = NullMm
       /\ irqflags' = [irqflags EXCEPT ![u] = FALSE]
       /\ UNCHANGED <<patching_lock, irqs_on>>
    \/ /\ patching_mm # NullMm
       /\ patching_lock = 0
       /\ patching_lock' = u
       /\ irqflags' = [irqflags EXCEPT ![u] = irqs_on[u]]
       /\ irqs_on' = [irqs_on EXCEPT ![u] = FALSE]

\* unlock_patching without the test of patching_mm.
UnlockPatchingAlways(u) ==
    /\ patching_lock' = 0
    /\ irqs_on' = [irqs_on EXCEPT ![u] = irqflags[u]]

\* unlock_patching(flags) on cpu u: what it does to the lock and the
\* interrupt state.
UnlockPatching(u) ==
    IF patching_mm = NullMm
    THEN UNCHANGED <<patching_lock, irqs_on>>
    ELSE /\ patching_lock' = 0
         /\ irqs_on' = [irqs_on EXCEPT ![u] = irqflags[u]]

\* The freed-init-section test of patch_instruction and
\* patch_instruction_unlocked.
SkipFreedInitNever(a) == FALSE

SkipFreedInit(a) == init_mem_is_free /\ init_section_contains(a, 4)

\* The entry of patch_instruction / patch_instruction_unlocked: the guard,
\* which returns 0, or else on to lock_patching (in patch_instruction) or
\* to do_patch_instruction.
Enter(u, op, a, i, t, f) ==
    /\ ncalls' = ncalls + 1
    /\ IF SkipFreedInit(a)
       THEN /\ last' = [NoResult EXCEPT !.cpu = u, !.op = op, !.addr = a, !.ret = 0,
                                        !.path = "skipped"]
            /\ UNCHANGED <<pc, frame>>
       ELSE /\ frame' = [frame EXCEPT ![u] =
                          [EmptyFrame EXCEPT !.op = op, !.addr = a, !.instr = i,
                                             !.target = t, !.bflags = f]]
            /\ pc' = [pc EXCEPT ![u] = IF op \in LockedOps THEN "lock_patching"
                                                              ELSE "do_patch_instruction"]
            /\ last' = NoResult
    /\ UNCHANGED <<patching_mm, patching_addr, init_mem_is_free, radix_enabled,
                   brk_available, patching_lock, ptl, pte, tlb, mem, active_mm, irqs_on,
                   hw_brk, irqflags, codec>>

patch_instruction(u, a, i) ==
    /\ MayCall(u, "idle")
    /\ Enter(u, "patch_instruction", a, i, 0, 0)

patch_instruction_unlocked(u, a, i) ==
    /\ MayCall(u, "locked")
    /\ Enter(u, "patch_instruction_unlocked", a, i, 0, 0)

\* patch_branch: create_branch's return value is not looked at; the word it
\* left in instr is patched in.
patch_branch(u, a, t, f) ==
    /\ MayCall(u, "idle")
    /\ Enter(u, "patch_branch", a, create_branch(a, t, f).instr, t, f)

patch_branch_unlocked(u, a, t, f) ==
    /\ MayCall(u, "locked")
    /\ Enter(u, "patch_branch_unlocked", a, create_branch(a, t, f).instr, t, f)

\* lock_patching() in patch_instruction taking the spinlock without the test
\* of patching_mm.
lock_patching_unconditional(u) ==
    /\ pc[u] = "lock_patching"
    /\ patching_lock = 0
    /\ patching_lock' = u
    /\ irqflags' = [irqflags EXCEPT ![u] = irqs_on[u]]
    /\ irqs_on' = [irqs_on EXCEPT ![u] = FALSE]
    /\ pc' = [pc EXCEPT ![u] = "do_patch_instruction"]
    /\ last' = NoResult
    /\ UNCHANGED <<patching_mm, patching_addr, init_mem_is_free, radix_enabled,
                   brk_available, ptl, pte, tlb, mem, active_mm, hw_brk, frame,
                   ncalls, codec>>

\* lock_patching() in patch_instruction.
lock_patching(u) ==
    /\ pc[u] = "lock_patching"
    /\ LockPatching(u)
    /\ pc' = [pc EXCEPT ![u] = "do_patch_instruction"]
    /\ last' = NoResult
    /\ UNCHANGED <<patching_mm, patching_addr, init_mem_is_free, radix_enabled,
                   brk_available, ptl, pte, tlb, mem, active_mm, hw_brk, frame,
                   ncalls, codec>>

\* lock_patching() by a caller that goes on to use the unlocked variants.
caller_lock_patching(u) ==
    /\ pc[u] = "idle"
    /\ patching_mm # NullMm \/ u = BootCpu
    /\ LockPatching(u)
    /\ pc' = [pc EXCEPT ![u] = "locked"]
    /\ last' = NoResult
    /\ UNCHANGED <<patching_mm, patching_addr, init_mem_is_free, radix_enabled,
                   brk_available, ptl, pte, tlb, mem, active_mm, hw_brk, frame, ncalls, codec>>

\* unlock_patching() in patch_instruction, and the return of err.
unlock_patching(u) ==
    /\ pc[u] = "unlock_patching"
    /\ UnlockPatching(u)
    /\ last' = Result(u, frame[u])
    /\ frame' = [frame EXCEPT ![u] = EmptyFrame]
    /\ pc' = [pc EXCEPT ![u] = "idle"]
    /\ UNCHANGED <<patching_mm, patching_addr, init_mem_is_free, radix_enabled,
                   brk_available, ptl, pte, tlb, mem, active_mm, hw_brk, irqflags,
                   ncalls, codec>>

\* patch_instruction_unlocked ending as patch_instruction does, with
\* unlock_patching.
return_unlocked_releasing(u) ==
    /\ pc[u] = "return_unlocked"
    /\ UnlockPatching(u)
    /\ last' = Result(u, frame[u])
    /\ frame' = [frame EXCEPT ![u] = EmptyFrame]
    /\ pc' = [pc EXCEPT ![u] = "idle"]
    /\ UNCHANGED <<patching_mm, patching_addr, init_mem_is_free, radix_enabled,
                   brk_available, ptl, pte, tlb, mem, active_mm, hw_brk, irqflags,
                   ncalls, codec>>

\* patch_instruction_unlocked returns what do_patch_instruction returned.
return_unlocked(u) ==
    /\ pc[u] = "return_unlocked"
    /\ last' = Result(u, frame[u])
    /\ frame' = [frame EXCEPT ![u] = EmptyFrame]
    /\ pc' = [pc EXCEPT ![u] = "locked"]
    /\ UNCHANGED <<patching_mm, patching_addr, init_mem_is_free, radix_enabled,
                   brk_available, patching_lock, ptl, pte, tlb, mem, active_mm, irqs_on,
                   hw_brk, irqflags, ncalls, codec>>

\* unlock_patching() by the caller of the unlocked variants.
caller_unlock_patching(u) ==
    /\ pc[u] = "locked"
    /\ UnlockPatching(u)
    /\ pc' = [pc EXCEPT ![u] = "idle"]
    /\ last' = NoResult
    /\ UNCHANGED <<patching_mm, patching_addr, init_mem_is_free, radix_enabled,
                   brk_available, ptl, pte, tlb, mem, active_mm, hw_brk, irqflags,
                   frame, ncalls, codec>>

(***************************************************************************)
(* The secure write channel.                                               *)
(***************************************************************************)
\* do_patch_instruction returns with the frame fr: to unlock_patching in
\* patch_instruction, or to the return of patch_instruction_unlocked.
ExitDoPatch(u, fr) ==
    /\ pc' = [pc EXCEPT ![u] = IF fr.op \in LockedOps THEN "unlock_patching"
                                                       ELSE "return_unlocked"]
    /\ frame' = [frame EXCEPT ![u] = fr]
    /\ last' = NoResult

\* The memory m after the words ws are stored at the physical words at.
Store(m, at, ws) ==
    [w \in PhysWords |->
        IF \E k \in 1 .. Len(ws) : at[k] = w
        THEN ws[CHOOSE k \in 1 .. Len(ws) : at[k] = w]
        ELSE m[w]]

\* The virtual addresses of the words of instruction i stored at va.
WordAddrs(i, va) == [k \in 1 .. Len(InstWords(i)) |-> va + 4 * (k - 1)]

\* The frame a user address of the scratch page translates to on cpu u: the
\* cached translation if the cpu holds one, else the page-table entry.
AliasFrame(u, va) ==
    IF active_mm[u] = PatchingMm /\ PAGE_MASK(va) = patching_addr
    THEN IF tlb[u] # NoFrame THEN tlb[u]
         ELSE IF pte.valid THEN pte.pfn ELSE NoFrame
    ELSE NoFrame

\* The page map_patch resolves for addr.
map_patch_page(a) ==
    IF is_vmalloc_or_module_addr(a) THEN vmalloc_to_page(a) ELSE virt_to_page(a)

\* The scratch alias of addr.
patch_addr_no_offset(a) == patching_addr

patch_addr(a) == BitOr(patching_addr, offset_in_page(a))

\* do_patch_instruction: without a patching_mm the raw write at addr itself,
\* whose status is returned at once; else on to map_patch.
do_patch_instruction(u) ==
    /\ pc[u] = "do_patch_instruction"
    /\ IF patching_mm = NullMm
       THEN LET fr == frame[u]
                at == WordAddrs(fr.instr, fr.addr)
                ok == \A k \in DOMAIN at : KernelMapped(at[k])
            IN  \E fault \in BOOLEAN :
                  /\ ~fault => ok
                  /\ IF fault
                     THEN /\ UNCHANGED mem
                          /\ ExitDoPatch(u, [fr EXCEPT !.err = 0 - 14, !.path = "raw",
                                                       !.faulted = TRUE])
                     ELSE /\ mem' = Store(mem, [k \in DOMAIN at |-> KernelPhys(at[k])],
                                          InstWords(fr.instr))
                          /\ ExitDoPatch(u, [fr EXCEPT !.err = 0, !.path = "raw",
                                                       !.wrote = TRUE])
       ELSE /\ pc' = [pc EXCEPT ![u] = "map_patch"]
            /\ frame' = [frame EXCEPT ![u].path = "secure"]
            /\ last' = NoResult
            /\ UNCHANGED <<mem>>
    /\ UNCHANGED <<patching_mm, patching_addr, init_mem_is_free, radix_enabled,
                   brk_available, patching_lock, ptl, pte, tlb, active_mm, irqs_on,
                   hw_brk, irqflags, ncalls, codec>>

\* map_patch up to set_pte_at: get_locked_pte fails, or takes the page-table
\* lock and the entry is installed.
map_patch(u) ==
    /\ pc[u] = "map_patch"
    /\ \/ /\ ExitDoPatch(u, [frame[u] EXCEPT !.err = 0 - 1, !.path = "nopte"])
          /\ UNCHANGED <<ptl, pte>>
       \/ /\ ptl = 0
          /\ ptl' = u
          /\ pte' = [valid |-> TRUE, pfn |-> map_patch_page(frame[u].addr),
                     dirty |-> TRUE,
                     prot |-> IF radix_enabled THEN "PAGE_KERNEL" ELSE "PAGE_SHARED"]
          /\ frame' = [frame EXCEPT ![u].ptep = TRUE]
          /\ pc' = [pc EXCEPT ![u] = "use_temporary_mm"]
          /\ last' = NoResult
    /\ UNCHANGED <<patching_mm, patching_addr, init_mem_is_free, radix_enabled,
                   brk_available, patching_lock, tlb, mem, active_mm, irqs_on, hw_brk,
                   irqflags, ncalls, codec>>

\* init_temp_mm and the address-space switch of use_temporary_mm.
use_temporary_mm(u) ==
    /\ pc[u] = "use_temporary_mm"
    /\ frame' = [frame EXCEPT ![u].prev = active_mm[u],
                              ![u].brk = [i \in Slots |-> null_brk]]
    /\ active_mm' = [active_mm EXCEPT ![u] = PatchingMm]
    /\ pc' = [pc EXCEPT ![u] = "disable_breakpoints"]
    /\ last' = NoResult
    /\ UNCHANGED <<patching_mm, patching_addr, init_mem_is_free, radix_enabled,
                   brk_available, patching_lock, ptl, pte, tlb, mem, irqs_on, hw_brk,
                   irqflags, ncalls, codec>>

\* use_temporary_mm saving the breakpoints without disabling any.
disable_breakpoints_save_only(u) ==
    /\ pc[u] = "disable_breakpoints"
    /\ IF brk_available
       THEN frame' = [frame EXCEPT ![u].brk = hw_brk[u]]
       ELSE UNCHANGED frame
    /\ pc' = [pc EXCEPT ![u] = "hash_prefault_mapping"]
    /\ last' = NoResult
    /\ UNCHANGED <<patching_mm, patching_addr, init_mem_is_free, radix_enabled,
                   brk_available, patching_lock, ptl, pte, tlb, mem, active_mm, irqs_on,
                   hw_brk, irqflags, ncalls, codec>>

\* The breakpoint loop of use_temporary_mm.
disable_breakpoints(u) ==
    /\ pc[u] = "disable_breakpoints"
    /\ IF brk_available
       THEN /\ frame' = [frame EXCEPT ![u].brk = hw_brk[u]]
            /\ hw_brk' = [hw_brk EXCEPT ![u] =
                            [i \in Slots |-> IF hw_brk[u][i].type # 0 THEN null_brk
                                             ELSE hw_brk[u][i]]]
       ELSE UNCHANGED <<frame, hw_brk>>
    /\ pc' = [pc EXCEPT ![u] = "hash_prefault_mapping"]
    /\ last' = NoResult
    /\ UNCHANGED <<patching_mm, patching_addr, init_mem_is_free, radix_enabled,
                   brk_available, patching_lock, ptl, pte, tlb, mem, active_mm, irqs_on,
                   irqflags, ncalls, codec>>

\* hash_prefault_mapping, whose value map_patch and then, when it is not 0,
\* do_patch_instruction return.  The value is hash_page_mm's: the value of
\* slb_allocate_user is overwritten.
hash_prefault_mapping(u) ==
    /\ pc[u] = "hash_prefault_mapping"
    /\ IF radix_enabled
       THEN /\ pc' = [pc EXCEPT ![u] = "__patch_instruction"]
            /\ last' = NoResult
            /\ UNCHANGED <<frame, tlb>>
       ELSE \E se \in SlbErrs, he \in HashErrs :
              LET fr == [frame[u] EXCEPT !.slb_err = se, !.hash_err = he]
                  err == he
              IN  IF err # 0
                  THEN /\ ExitDoPatch(u, [fr EXCEPT !.err = err, !.path = "nohash"])
                       /\ UNCHANGED tlb
                  ELSE /\ tlb' = [tlb EXCEPT ![u] = pte.pfn]
                       /\ frame' = [frame EXCEPT ![u] = fr]
                       /\ pc' = [pc EXCEPT ![u] = "__patch_instruction"]
                       /\ last' = NoResult
    /\ UNCHANGED <<patching_mm, patching_addr, init_mem_is_free, radix_enabled,
                   brk_available, patching_lock, ptl, pte, mem, active_mm, irqs_on,
                   hw_brk, irqflags, ncalls, codec>>

\* __patch_instruction(addr, instr, patch_addr): the store through the scratch
\* alias.  It faults when a word has no translation, and may fault otherwise.
patch_store(u) ==
    /\ pc[u] = "__patch_instruction"
    /\ LET fr == frame[u]
           at == WordAddrs(fr.instr, patch_addr(fr.addr))
           ok == \A k \in DOMAIN at : AliasFrame(u, at[k]) # NoFrame
       IN  \E fault \in BOOLEAN :
             /\ ~fault => ok
             /\ IF fault
                THEN /\ frame' = [frame EXCEPT ![u].err = 0 - 14, ![u].faulted = TRUE]
                     /\ UNCHANGED <<mem, tlb>>
                ELSE /\ mem' = Store(mem,
                                     [k \in DOMAIN at |->
                                        <<AliasFrame(u, at[k]), offset_in_page(at[k]) \div 4>>],
                                     InstWords(fr.instr))
                     /\ tlb' = [tlb EXCEPT ![u] = AliasFrame(u, at[1])]
                     /\ frame' = [frame EXCEPT ![u].err = 0, ![u].wrote = TRUE]
    /\ pc' = [pc EXCEPT ![u] = "pte_clear"]
    /\ last' = NoResult
    /\ UNCHANGED <<patching_mm, patching_addr, init_mem_is_free, radix_enabled,
                   brk_available, patching_lock, ptl, pte, active_mm, irqs_on, hw_brk,
                   irqflags, ncalls, codec>>

\* unmap_patch: pte_clear, which on hash also flushes the translation.
pte_clear_unless_failed(u) ==
    /\ pc[u] = "pte_clear"
    /\ pte' = IF frame[u].err # 0 THEN pte ELSE NoPte
    /\ tlb' = IF radix_enabled THEN tlb ELSE [tlb EXCEPT ![u] = NoFrame]
    /\ pc' = [pc EXCEPT ![u] = "local_flush_tlb_mm"]
    /\ last' = NoResult
    /\ UNCHANGED <<patching_mm, patching_addr, init_mem_is_free, radix_enabled,
                   brk_available, patching_lock, ptl, mem, active_mm, irqs_on, hw_brk,
                   irqflags, frame, ncalls, codec>>

pte_clear(u) ==
    /\ pc[u] = "pte_clear"
    /\ pte' = NoPte
    /\ tlb' = IF radix_enabled THEN tlb ELSE [tlb EXCEPT ![u] = NoFrame]
    /\ pc' = [pc EXCEPT ![u] = "local_flush_tlb_mm"]
    /\ last' = NoResult
    /\ UNCHANGED <<patching_mm, patching_addr, init_mem_is_free, radix_enabled,
                   brk_available, patching_lock, ptl, mem, active_mm, irqs_on, hw_brk,
                   irqflags, frame, ncalls, codec>>

\* unmap_patch: local_flush_tlb_mm, a no-op on hash.
local_flush_tlb_mm(u) ==
    /\ pc[u] = "local_flush_tlb_mm"
    /\ tlb' = IF radix_enabled THEN [tlb EXCEPT ![u] = NoFrame] ELSE tlb
    /\ pc' = [pc EXCEPT ![u] = "pte_unmap_unlock"]
    /\ last' = NoResult
    /\ UNCHANGED <<patching_mm, patching_addr, init_mem_is_free, radix_enabled,
                   brk_available, patching_lock, ptl, pte, mem, active_mm, irqs_on,
                   hw_brk, irqflags, frame, ncalls, codec>>

\* unmap_patch: pte_unmap_unlock.
pte_unmap_unlock(u) ==
    /\ pc[u] = "pte_unmap_unlock"
    /\ ptl' = 0
    /\ frame' = [frame EXCEPT ![u].ptep = FALSE]
    /\ pc' = [pc EXCEPT ![u] = "unuse_temporary_mm"]
    /\ last' = NoResult
    /\ UNCHANGED <<patching_mm, patching_addr, init_mem_is_free, radix_enabled,
                   brk_available, patching_lock, pte, tlb, mem, active_mm, irqs_on,
                   hw_brk, irqflags, ncalls, codec>>

\* unuse_temporary_mm: the switch back to the previous address space.
unuse_temporary_mm(u) ==
    /\ pc[u] = "unuse_temporary_mm"
    /\ active_mm' = [active_mm EXCEPT ![u] = frame[u].prev]
    /\ pc' = [pc EXCEPT ![u] = "restore_breakpoints"]
    /\ last' = NoResult
    /\ UNCHANGED <<patching_mm, patching_addr, init_mem_is_free, radix_enabled,
                   brk_available, patching_lock, ptl, pte, tlb, mem, irqs_on, hw_brk,
                   irqflags, frame, ncalls, codec>>

\* unuse_temporary_mm: the breakpoint loop.
restore_breakpoints(u) ==
    /\ pc[u] = "restore_breakpoints"
    /\ hw_brk' = IF brk_available
                 THEN [hw_brk EXCEPT ![u] =
                         [i \in Slots |-> IF frame[u].brk[i].type # 0 THEN frame[u].brk[i]
                                          ELSE hw_brk[u][i]]]
                 ELSE hw_brk
    /\ pc' = [pc EXCEPT ![u] = "verify"]
    /\ last' = NoResult
    /\ UNCHANGED <<patching_mm, patching_addr, init_mem_is_free, radix_enabled,
                   brk_available, patching_lock, ptl, pte, tlb, mem, active_mm, irqs_on,
                   irqflags, frame, ncalls, codec>>

\* The read-back of do_patch_instruction (WARN_ON of a mismatch), and its
\* return of err.
ReadBack(fr) ==
    IF ppc_inst_equal(ppc_inst_read(mem, fr.addr), fr.instr) THEN "match" ELSE "warned"

verify_none(u) ==
    /\ pc[u] = "verify"
    /\ ExitDoPatch(u, frame[u])
    /\ UNCHANGED <<patching_mm, patching_addr, init_mem_is_free, radix_enabled,
                   brk_available, patching_lock, ptl, pte, tlb, mem, active_mm, irqs_on,
                   hw_brk, irqflags, ncalls, codec>>

verify(u) ==
    /\ pc[u] = "verify"
    /\ ExitDoPatch(u, [frame[u] EXCEPT !.readback = ReadBack(frame[u])])
    /\ UNCHANGED <<patching_mm, patching_addr, init_mem_is_free, radix_enabled,
                   brk_available, patching_lock, ptl, pte, tlb, mem, active_mm, irqs_on,
                   hw_brk, irqflags, ncalls, codec>>

(***************************************************************************)
(* The specification of the patching machinery.                            *)
(***************************************************************************)
Next ==
    \/ \E r \in RandomLongs : poking_init(r)
    \/ free_initmem
    \/ \E u \in Cpus, a \in Targets, i \in Instrs : patch_instruction(u, a, i)
    \/ \E u \in Cpus, a \in Targets, i \in Instrs : patch_instruction_unlocked(u, a, i)
    \/ \E u \in Cpus, b \in BranchArgs : patch_branch(u, b[1], b[2], b[3])
    \/ \E u \in Cpus, b \in BranchArgs : patch_branch_unlocked(u, b[1], b[2], b[3])
    \/ \E u \in Cpus : lock_patching(u)
    \/ \E u \in Cpus : caller_lock_patching(u)
    \/ \E u \in Cpus : do_patch_instruction(u)
    \/ \E u \in Cpus : map_patch(u)
    \/ \E u \in Cpus : use_temporary_mm(u)
    \/ \E u \in Cpus : disable_breakpoints(u)
    \/ \E u \in Cpus : hash_prefault_mapping(u)
    \/ \E u \in Cpus : patch_store(u)
    \/ \E u \in Cpus : pte_clear(u)
    \/ \E u \in Cpus : local_flush_tlb_mm(u)
    \/ \E u \in Cpus : pte_unmap_unlock(u)
    \/ \E u \in Cpus : unuse_temporary_mm(u)
    \/ \E u \in Cpus : restore_breakpoints(u)
    \/ \E u \in Cpus : verify(u)
    \/ \E u \in Cpus : unlock_patching(u)
    \/ \E u \in Cpus : return_unlocked(u)
    \/ \E u \in Cpus : caller_unlock_patching(u)

Spec == Init /\ [][Next]_vars

(***************************************************************************)
(* The specification of the codec: one call of an encoder on drawn         *)
(* arguments.                                                              *)
(***************************************************************************)
\* Source addresses: zero, a low address, a high one, and a kernel address
\* (its top bit set, so negative as a long).
CodecAddrs == {0, 4096, 268435456, 0 - 268435456}

\* Offsets around every boundary of both families, aligned and not.
CodecOffsets ==
    {0 - 33554436, 0 - 33554432, 0 - 33554431, 0 - 33554428, 0 - 32772, 0 - 32768,
     0 - 32767, 0 - 32764, 0 - 256, 0 - 4, 0 - 3, 0 - 1, 0, 1, 2, 3, 4, 256, 32764,
     32765, 32767, 32768, 32769, 33554428, 33554429, 33554432, 33554435}

\* Flags: none, link, absolute, both, 0xFFFFFFFC, all ones, and the
\* condition bits 0x3ff000 with link.
CodecFlags == {0, 1, 2, 3, 0 - 4, 0 - 1, 4190209}

CodecInput(a, o, f) ==
    [fn |-> "input", addr |-> a, target |-> a + o, flags |-> f, err |-> 0,
     instr |-> ppc_inst(0)]

InitCodec ==
    /\ patching_mm = NullMm
    /\ patching_addr = 0
    /\ init_mem_is_free = FALSE
    /\ radix_enabled = TRUE
    /\ brk_available = TRUE
    /\ patching_lock = 0
    /\ ptl = 0
    /\ pte = NoPte
    /\ tlb = [u \in Cpus |-> NoFrame]
    /\ mem = [w \in PhysWords |-> 1610612736]
    /\ active_mm = [u \in Cpus |-> MmOf(u)]
    /\ irqs_on = [u \in Cpus |-> u % 2 = 1]
    /\ hw_brk = [u \in Cpus |-> [i \in Slots |-> BootBrk(u, i)]]
    /\ irqflags = [u \in Cpus |-> FALSE]
    /\ pc = [u \in Cpus |-> "idle"]
    /\ frame = [u \in Cpus |-> EmptyFrame]
    /\ last = NoResult
    /\ ncalls = 0
    /\ codec \in {CodecInput(a, o, f) : a \in CodecAddrs, o \in CodecOffsets, f \in CodecFlags}

PatchVars == <<patching_mm, patching_addr, init_mem_is_free, radix_enabled, brk_available,
               patching_lock, ptl, pte, tlb, mem, active_mm, irqs_on, hw_brk, irqflags,
               pc, frame, last, ncalls>>

call_create_branch ==
    /\ codec.fn = "input"
    /\ LET r == create_branch(codec.addr, codec.target, codec.flags)
       IN  codec' = [codec EXCEPT !.fn = "create_branch", !.err = r.err, !.instr = r.instr]
    /\ UNCHANGED PatchVars

call_create_cond_branch ==
    /\ codec.fn = "input"
    /\ LET r == create_cond_branch(codec.instr, codec.addr, codec.target, codec.flags)
       IN  codec' = [codec EXCEPT !.fn = "create_cond_branch", !.err = r.err,
                                  !.instr = r.instr]
    /\ UNCHANGED PatchVars

NextCodec ==
    \/ call_create_branch
    \/ call_create_cond_branch

SpecCodec == InitCodec /\ [][NextCodec]_vars

(***************************************************************************)
(* The specification of the decoders: the classification of a drawn word   *)
(* and the relocation of a drawn word stored at a drawn address.           *)
(***************************************************************************)
\* Instruction words: unconditional branches (b ., bl, ba 0, bl .-4, the two
\* extreme displacements, an absolute one, b .+0x1000000), conditional
\* branches (bc ., all condition bits, extreme displacements, absolute),
\* opcode 19 (bclr, blr, bctr, bctar, bclrl, bclr with bit 11, isync, crxor),
\* and others: 0, nop, mflr r0, sc, a prefix, all ones, and the words whose
\* opcode is 18 or 16 with the top bit added (0xc8000000, 0xc0000000,
\* 0x88000000).
InstrWords ==
    {1207959552, 1207959553, 1207959554, 1275068413, 1241513984, 1241513980,
     1241513986, 1224736768,
     1073741824, 1140785152, 1140817921, 1140817916, 1073774594, 1073754112,
     1275068448, 1317011488, 1317012512, 1317012576, 1275068449, 1275070496,
     1275068716, 1275068802,
     0, 1610612736, 2080899750, 1140850690, 67108864, 0 - 1,
     0 - 939524096, 0 - 1073741824, 0 - 2013265920}

\* Addresses the word is stored at: low, 4096 + 0x2000000, and a kernel
\* address.
SrcAddrs == {4096, 33558528, 0 - 268435456}

\* Distances from the old to the new address, around every boundary.
DestDeltas ==
    {0, 4, 2, 33554432, 4 - 33554432, 33554436, 0 - 33554432, 32768, 4 - 32768,
     32772, 0 - 32768, 20971520}

InstrInput(a, w) ==
    [fn |-> "input", addr |-> a, word |-> ppc_inst(w), dest |-> 0, err |-> 0,
     instr |-> ppc_inst(0), res |-> FALSE, target |-> 0]

InitInstr ==
    /\ patching_mm = NullMm
    /\ patching_addr = 0
    /\ init_mem_is_free = FALSE
    /\ radix_enabled = TRUE
    /\ brk_available = TRUE
    /\ patching_lock = 0
    /\ ptl = 0
    /\ pte = NoPte
    /\ tlb = [u \in Cpus |-> NoFrame]
    /\ mem = [w \in PhysWords |-> 1610612736]
    /\ active_mm = [u \in Cpus |-> MmOf(u)]
    /\ irqs_on = [u \in Cpus |-> u % 2 = 1]
    /\ hw_brk = [u \in Cpus |-> [i \in Slots |-> BootBrk(u, i)]]
    /\ irqflags = [u \in Cpus |-> FALSE]
    /\ pc = [u \in Cpus |-> "idle"]
    /\ frame = [u \in Cpus |-> EmptyFrame]
    /\ last = NoResult
    /\ ncalls = 0
    /\ codec \in {InstrInput(a, w) : a \in SrcAddrs, w \in InstrWords}

call_translate_branch ==
    /\ codec.fn = "input"
    /\ \E d \in DestDeltas :
         LET r == translate_branch(codec.instr, codec.word, codec.addr + d, codec.addr)
         IN  codec' = [codec EXCEPT !.fn = "translate_branch", !.dest = codec.addr + d,
                                    !.err = r.err, !.instr = r.instr]
    /\ UNCHANGED PatchVars

call_instr_is_branch_iform ==
    /\ codec.fn = "input"
    /\ codec' = [codec EXCEPT !.fn = "instr_is_branch_iform",
                              !.res = instr_is_branch_iform(codec.word)]
    /\ UNCHANGED PatchVars

call_instr_is_branch_bform ==
    /\ codec.fn = "input"
    /\ codec' = [codec EXCEPT !.fn = "instr_is_branch_bform",
                              !.res = instr_is_branch_bform(codec.word)]
    /\ UNCHANGED PatchVars

call_is_conditional_branch ==
    /\ codec.fn = "input"
    /\ codec' = [codec EXCEPT !.fn = "is_conditional_branch",
                              !.res = is_conditional_branch(codec.word)]
    /\ UNCHANGED PatchVars

call_branch_target ==
    /\ codec.fn = "input"
    /\ codec' = [codec EXCEPT !.fn = "branch_target",
                              !.target = branch_target(codec.word, codec.addr)]
    /\ UNCHANGED PatchVars

\* instr_is_branch_to_addr for a queried address: 0, the word's own address,
\* or an address at one of the distances.
call_instr_is_branch_to_addr ==
    /\ codec.fn = "input"
    /\ \E q \in {0} \cup {codec.addr + d : d \in DestDeltas} :
         codec' = [codec EXCEPT !.fn = "instr_is_branch_to_addr", !.dest = q,
                                !.res = instr_is_branch_to_addr(codec.word, codec.addr, q)]
    /\ UNCHANGED PatchVars

NextInstr ==
    \/ call_branch_target
    \/ call_instr_is_branch_to_addr
    \/ call_translate_branch
    \/ call_instr_is_branch_iform
    \/ call_instr_is_branch_bform
    \/ call_is_conditional_branch

SpecInstr == InitInstr /\ [][NextInstr]_vars

(***************************************************************************)
(* Properties.                                                             *)
(***************************************************************************)
\* The program points from which a patch call returns to its caller.
ReturnPcs == {"unlock_patching", "return_unlocked"}

\* The program points between the start of map_patch and the end of
\* unmap_patch.
ScratchPcs ==
    {"map_patch", "use_temporary_mm", "disable_breakpoints", "hash_prefault_mapping",
     "__patch_instruction", "pte_clear", "local_flush_tlb_mm", "pte_unmap_unlock",
     "unuse_temporary_mm", "restore_breakpoints"}

\* The offset the branch encoders range-check.
BranchOffset(addr, target, flags) ==
    IF And(flags, BRANCH_ABSOLUTE) = 0 THEN target - addr ELSE target

\* C1: whenever no patch call is in progress on any cpu, the scratch
\* page-table entry at patching_addr is not valid.
C1_ScratchPteClearedBetweenPatches ==
    (\A u \in Cpus : pc[u] \in {"idle", "locked"}) => ~pte.valid

\* C2: at most one cpu at a time is between the start of map_patch and the
\* end of unmap_patch, and at most one cpu at a time runs on the temporary
\* address space.
C2_OneCpuInScratchSection ==
    /\ Cardinality({u \in Cpus : pc[u] \in ScratchPcs}) <= 1
    /\ Cardinality({u \in Cpus : active_mm[u] = PatchingMm}) <= 1

\* C2 witness: a cpu is storing through the scratch alias while another
\* cpu, inside patch_instruction, waits for the lock.
C2_Witness ==
    \E u, v \in Cpus :
        /\ u # v
        /\ pc[u] = "__patch_instruction"
        /\ frame[u].op = "patch_instruction"
        /\ pc[v] = "lock_patching"

\* C3: a patch_branch or patch_branch_unlocked call whose branch offset is
\* out of range or misaligned writes nothing and returns a failure status.
C3_BadBranchNotPatched ==
    \A u \in Cpus :
        LET fr == frame[u]
        IN  (/\ fr.op \in BranchOps
             /\ ~is_offset_in_branch_range(BranchOffset(fr.addr, fr.target, fr.bflags)))
            => /\ ~fr.wrote
               /\ pc[u] \in ReturnPcs => fr.err # 0

\* The memory after instruction i has been written at kernel address a.
Patched(m, a, i) ==
    Store(m, [k \in DOMAIN WordAddrs(i, a) |-> KernelPhys(WordAddrs(i, a)[k])],
          InstWords(i))

\* C4: a store that succeeds changes exactly the words of the physical page
\* backing the target, at the target's in-page offset, memory changes in no
\* other way, and when a patch call returns 0 a read of the target yields
\* the instruction.
C4_WriteLandsAtTarget ==
    [][/\ \A u \in Cpus :
            /\ (~frame[u].wrote /\ frame'[u].wrote)
                  => mem' = Patched(mem, frame'[u].addr, frame'[u].instr)
            /\ (pc[u] \in ReturnPcs /\ pc'[u] \notin ReturnPcs /\ frame[u].err = 0)
                  => /\ last'.ret = 0
                     /\ ppc_inst_equal(ppc_inst_read(mem, frame[u].addr), frame[u].instr)
                     /\ ppc_inst_equal(frame[u].instr, ppc_inst_read(mem, frame[u].addr))
       /\ mem' # mem => \E u \in Cpus : ~frame[u].wrote /\ frame'[u].wrote]_vars

\* C4 witness: a secure patch has just returned 0, and both the word at
\* in-page offset 0 of the text page and the last slot of the module page
\* hold the patched instruction.
C4_Witness ==
    /\ last.ret = 0
    /\ last.path = "secure"
    /\ mem[KernelPhys(TextLo)] = 2080899750
    /\ mem[KernelPhys(ModHi)] = 2080899750

\* C5: a call of patch_instruction or patch_instruction_unlocked on an
\* address of the freed init section returns 0 at once and changes nothing:
\* not memory, the locks, the page-table entry, the address space, the
\* interrupt state or the breakpoints; and no call on such an address goes on.
C5_FreedInitSkipped ==
    [][ncalls' = ncalls + 1 =>
         IF frame' = frame
         THEN /\ last'.path = "skipped"
              /\ last'.ret = 0
              /\ init_mem_is_free
              /\ init_section_contains(last'.addr, 4)
              /\ UNCHANGED <<mem, patching_lock, ptl, pte, tlb, active_mm, irqs_on,
                             hw_brk, irqflags, pc>>
         ELSE \A u \in Cpus :
                frame'[u] # frame[u]
                   => ~(init_mem_is_free /\ init_section_contains(frame'[u].addr, 4))]_vars

\* C5 witness: patch_instruction_unlocked has just skipped an init-section
\* address, its caller still holding the lock.
C5_Witness ==
    /\ last.path = "skipped"
    /\ last.ret = 0
    /\ last.op = "patch_instruction_unlocked"
    /\ init_section_contains(last.addr, 4)
    /\ patching_lock = last.cpu

\* C6: when the store through the scratch alias faulted, patch_instruction
\* returns -EFAULT, and by then the page-table entry is clear, the cpu's
\* translation flushed, its address space and breakpoints are restored, the
\* page-table lock released; the patching lock is released and the interrupt
\* state restored as it returns.
C6_FaultReturnedAfterTeardown ==
    [][\A u \in Cpus :
         (/\ pc[u] = "unlock_patching"
          /\ pc'[u] # "unlock_patching"
          /\ frame[u].faulted
          /\ frame[u].path = "secure")
         => /\ last'.cpu = u
            /\ last'.ret = 0 - 14
            /\ ~pte.valid
            /\ tlb[u] = NoFrame
            /\ ptl = 0
            /\ active_mm[u] = MmOf(u)
            /\ hw_brk[u] = [i \in Slots |-> BootBrk(u, i)]
            /\ patching_lock = u
            /\ patching_lock' = 0
            /\ irqs_on'[u] = (u % 2 = 1)]_vars

\* C6 witness: a patch_instruction whose store faulted has just returned.
C6_Witness ==
    /\ last.op = "patch_instruction"
    /\ last.path = "secure"
    /\ last.ret = 0 - 14

\* C7: a call in which the scratch mapping could not be established (no
\* page-table slot, SLB allocation failed, or hashed-page insertion failed)
\* writes nothing and returns a nonzero status.
C7_MapFailureReported ==
    \A u \in Cpus :
        LET fr == frame[u]
        IN  (fr.path \in {"nopte", "nohash"} \/ fr.slb_err # 0 \/ fr.hash_err # 0)
            => /\ ~fr.wrote
               /\ pc[u] \in ReturnPcs => fr.err # 0

\* C8 as stated: every call that wrote, through either path, has read the
\* target back by the time it returns.
C8_EveryWriteReadBack ==
    \A u \in Cpus :
        (pc[u] \in ReturnPcs /\ frame[u].wrote) => frame[u].readback # "none"

\* C8 amended: every call that went through the secure channel's store has,
\* by the time it returns, read the target back and flagged exactly a
\* mismatch; the direct path returns without a read-back.
C8_SecureWriteReadBack ==
    \A u \in Cpus :
        LET fr == frame[u]
        IN  pc[u] \in ReturnPcs =>
              /\ fr.path = "secure" =>
                    /\ fr.readback # "none"
                    /\ fr.readback = "warned"
                          <=> ~ppc_inst_equal(ppc_inst_read(mem, fr.addr), fr.instr)
              /\ fr.path = "raw" => fr.readback = "none"

\* C8 witness: a secure write is about to return, read back and found equal.
C8_Witness ==
    \E u \in Cpus :
        /\ pc[u] \in ReturnPcs
        /\ frame[u].path = "secure"
        /\ frame[u].wrote
        /\ frame[u].readback = "match"

\* The offsets each family can encode, as the specification words them.
InRangeI(off) == off % 4 = 0 /\ off >= 0 - 33554432 /\ off <= 33554428

InRangeB(off) == off % 4 = 0 /\ off >= 0 - 32768 /\ off <= 32764

\* Addresses other than t that a decoder could confuse with t.
Others(t) ==
    (CodecAddrs \cup {t + d : d \in {0 - 67108864, 0 - 65536, 0 - 4, 4, 65536, 67108864}})
        \ {t}

\* The round trip of one finished encoder call: it succeeded, and the
\* instruction placed at the source branches to the target and nowhere else.
RoundTrip ==
    /\ codec.err = 0
    /\ branch_target(codec.instr, codec.addr) = codec.target
    /\ instr_is_branch_to_addr(codec.instr, codec.addr, codec.target)
    /\ \A x \in Others(codec.target) :
          ~instr_is_branch_to_addr(codec.instr, codec.addr, x)

\* C9 as stated: for every source, every flags value and every offset o, a
\* multiple of 4 in the family's range, the encoder from source to source+o
\* succeeds and the produced instruction at source decodes to source+o only.
C9_RoundTripAnyFlags ==
    /\ (codec.fn = "create_branch" /\ InRangeI(codec.target - codec.addr)) => RoundTrip
    /\ (codec.fn = "create_cond_branch" /\ InRangeB(codec.target - codec.addr))
          => RoundTrip

\* C9 amended: for every source, flags and target whose offset as the
\* encoder takes it (target - source when the absolute flag is clear, target
\* itself when it is set) is a multiple of 4 in the family's range, the
\* encoder succeeds and the produced instruction at source decodes to target
\* only.
C9_RoundTripEncodedOffset ==
    LET off == BranchOffset(codec.addr, codec.target, codec.flags)
    IN  /\ (codec.fn = "create_branch" /\ InRangeI(off)) => RoundTrip
        /\ (codec.fn = "create_cond_branch" /\ InRangeB(off)) => RoundTrip

\* C9 witness: create_branch with the link flag has encoded the most negative
\* offset from a kernel address.
C9_Witness ==
    /\ codec.fn = "create_branch"
    /\ codec.err = 0
    /\ codec.addr < 0
    /\ codec.flags = BRANCH_SET_LINK
    /\ codec.target - codec.addr = 0 - 33554432
    /\ branch_target(codec.instr, codec.addr) = codec.target

\* C10: create_branch succeeds exactly when its offset (target, or target -
\* addr when the absolute flag is clear) is a multiple of 4 between -0x2000000
\* and 0x1fffffc, the predicate of is_offset_in_branch_range; and
\* create_cond_branch exactly when it is a multiple of 4 between -0x8000 and
\* 0x7ffc.
C10_SuccessExactlyInRange ==
    LET off == BranchOffset(codec.addr, codec.target, codec.flags)
    IN  /\ codec.fn = "create_branch" =>
              /\ codec.err = 0 <=> InRangeI(off)
              /\ is_offset_in_branch_range(off) <=> InRangeI(off)
        /\ codec.fn = "create_cond_branch" => (codec.err = 0 <=> InRangeB(off))

\* C10 witness: create_branch has accepted the largest offset, 0x1fffffc.
C10_Witness ==
    /\ codec.fn = "create_branch"
    /\ codec.err = 0
    /\ BranchOffset(codec.addr, codec.target, codec.flags) = 33554428

\* C11: create_branch with flags f gives the result of create_branch with
\* f & 0x3, and create_cond_branch with f that of create_cond_branch with
\* f & 0x3FF0003; a produced instruction has primary opcode 18 (resp. 16), its
\* displacement field holds the offset's bits and its other bits are the
\* masked flags.
C11_FlagMasking ==
    LET off == BranchOffset(codec.addr, codec.target, codec.flags)
        r == [err |-> codec.err, instr |-> codec.instr]
    IN  /\ codec.fn = "create_branch" =>
              /\ r = create_branch(codec.addr, codec.target, And(codec.flags, 3))
              /\ r.err = 0 =>
                    /\ ppc_inst_primary_opcode(r.instr) = 18
                    /\ And(r.instr.val, 67108860) = And(off, 67108860)
                    /\ r.instr.val = 1207959552 + And(off, 67108860) + And(codec.flags, 3)
        /\ codec.fn = "create_cond_branch" =>
              /\ r = create_cond_branch(ppc_inst(0), codec.addr, codec.target,
                                        And(codec.flags, 67043331))
              /\ r.err = 0 =>
                    /\ ppc_inst_primary_opcode(r.instr) = 16
                    /\ And(r.instr.val, 65532) = And(off, 65532)
                    /\ r.instr.val = 1073741824 + And(off, 65532)
                                        + And(codec.flags, 67043331)

\* C11 witness: create_branch with all-ones flags has produced 0x48000103,
\* the absolute branch-and-link to 0x100.
C11_Witness ==
    /\ codec.fn = "create_branch"
    /\ codec.flags = 0 - 1
    /\ codec.err = 0
    /\ codec.instr.val = 1207959811

\* The target of the word being relocated, at its old address.
OldTarget == branch_target(codec.word, codec.addr)

\* C12: when translate_branch succeeds, the result is a branch of the same
\* family whose target at the new address is the original's target at the old
\* one, with the original's absolute and link bits and, in the conditional
\* family, its condition bits.
C12_TranslateKeepsTargetAndFlags ==
    (codec.fn = "translate_branch" /\ codec.err = 0) =>
        /\ ppc_inst_primary_opcode(codec.instr) = ppc_inst_primary_opcode(codec.word)
        /\ ppc_inst_primary_opcode(codec.instr) \in {16, 18}
        /\ branch_target(codec.instr, codec.dest) = OldTarget
        /\ And(codec.instr.val, 3) = And(codec.word.val, 3)
        /\ instr_is_branch_bform(codec.word)
              => And(codec.instr.val, 67043328) = And(codec.word.val, 67043328)

\* C12 witness: b .+0x1000000 moved up by 0x1400000 has become b .-0x400000.
C12_Witness ==
    /\ codec.fn = "translate_branch"
    /\ codec.word.val = 1224736768
    /\ codec.dest - codec.addr = 20971520
    /\ codec.err = 0
    /\ codec.instr.val = 1270874112

\* The four extreme relocations of a branch to self and their results.
TranslateExtremes ==
    /\ (codec.word.val = 1207959552 /\ codec.dest - codec.addr = 33554432)
          => codec.err = 0 /\ codec.instr.val = 1241513984
    /\ (codec.word.val = 1207959552 /\ codec.dest - codec.addr = 4 - 33554432)
          => codec.err = 0 /\ codec.instr.val = 1241513980
    /\ (codec.word.val = 1140785152 /\ codec.dest - codec.addr = 32768)
          => codec.err = 0 /\ codec.instr.val = 1140817920
    /\ (codec.word.val = 1140785152 /\ codec.dest - codec.addr = 4 - 32768)
          => codec.err = 0 /\ codec.instr.val = 1140817916

\* C13 as stated: translate_branch fails exactly when the word is of neither
\* family or the offset from the new address to the original target is not
\* representable in the family; a success decodes to the original target; and
\* the extreme relocations give the four stated words.
C13_TranslateFailsOnNewOffset ==
    codec.fn = "translate_branch" =>
        LET off == OldTarget - codec.dest
        IN  /\ codec.err # 0
                 <=> \/ ppc_inst_primary_opcode(codec.word) \notin {16, 18}
                     \/ ppc_inst_primary_opcode(codec.word) = 18 /\ ~InRangeI(off)
                     \/ ppc_inst_primary_opcode(codec.word) = 16 /\ ~InRangeB(off)
            /\ codec.err = 0 => branch_target(codec.instr, codec.dest) = OldTarget
            /\ TranslateExtremes

\* C13 amended: translate_branch fails exactly when the word is of neither
\* family or the displacement to encode (the original target minus the new
\* address for a relative branch, the original target itself for an absolute
\* one) is not representable in the family; a success decodes to the
\* original target; and the extreme relocations give the four stated words.
C13_TranslateFailsOnEncodedOffset ==
    codec.fn = "translate_branch" =>
        LET off == IF codec.word.val % 4 \in {2, 3} THEN OldTarget
                   ELSE OldTarget - codec.dest
        IN  /\ codec.err # 0
                 <=> \/ ppc_inst_primary_opcode(codec.word) \notin {16, 18}
                     \/ ppc_inst_primary_opcode(codec.word) = 18 /\ ~InRangeI(off)
                     \/ ppc_inst_primary_opcode(codec.word) = 16 /\ ~InRangeB(off)
            /\ codec.err = 0 => branch_target(codec.instr, codec.dest) = OldTarget
            /\ TranslateExtremes

\* C13 witness: the conditional branch to self 0x43ff0000 moved to
\* x - 0x8000 + 4 has become 0x43ff7ffc.
C13_Witness ==
    /\ codec.fn = "translate_branch"
    /\ codec.word.val = 1140785152
    /\ codec.dest - codec.addr = 4 - 32768
    /\ codec.err = 0
    /\ codec.instr.val = 1140817916

\* The words of InstrWords by what they are.
IformWords ==
    {1207959552, 1207959553, 1207959554, 1275068413, 1241513984, 1241513980,
     1241513986, 1224736768}

BformWords == {1073741824, 1140785152, 1140817921, 1140817916, 1073774594, 1073754112}

Op19CondWords == {1275068448, 1317011488, 1317012512, 1317012576, 1275068449, 1275070496}

\* The top six bits of a 32-bit word, and bits 1 to 10.
TopSix(w) == ((w - (w % 67108864)) \div 67108864) % 64

ExtendedOpcode(w) == (w \div 2) % 1024

\* C14: a word is classified as an unconditional branch iff its primary
\* opcode is 18 and as a b-form branch iff it is 16, whatever its other bits;
\* is_conditional_branch holds exactly for opcode 16 and for opcode 19 with
\* extended opcode 16, 528 or 560.
C14_ClassifiedByOpcode ==
    LET w == codec.word.val
    IN  /\ codec.fn = "instr_is_branch_iform" =>
              /\ codec.res <=> TopSix(w) = 18
              /\ codec.res <=> w \in IformWords
        /\ codec.fn = "instr_is_branch_bform" =>
              /\ codec.res <=> TopSix(w) = 16
              /\ codec.res <=> w \in BformWords
        /\ codec.fn = "is_conditional_branch" =>
              /\ codec.res <=> \/ TopSix(w) = 16
                               \/ TopSix(w) = 19 /\ ExtendedOpcode(w) \in {16, 528, 560}
              /\ codec.res <=> w \in BformWords \cup Op19CondWords

\* C14 witness: is_conditional_branch has accepted bctar (0x4e800460).
C14_Witness ==
    /\ codec.fn = "is_conditional_branch"
    /\ codec.word.val = 1317012576
    /\ codec.res

\* C15: while patching_mm is NULL, no step of a patch call changes the
\* patching lock, the interrupt state, the page-table lock or entry, a
\* translation, an address space or a breakpoint; memory changes only by the
\* store of the instruction at the target address itself; and a call returns
\* from the direct path, with 0 only if it wrote.
C15_UninitializedWritesDirectly ==
    [][(patching_mm = NullMm /\ patching_mm' = NullMm) =>
         /\ UNCHANGED <<patching_lock, irqs_on, ptl, pte, tlb, active_mm, hw_brk>>
         /\ mem' # mem =>
               \E u \in Cpus :
                   /\ pc[u] = "do_patch_instruction"
                   /\ mem' = Patched(mem, frame[u].addr, frame[u].instr)
                   /\ frame'[u].wrote
                   /\ frame'[u].path = "raw"
         /\ \A u \in Cpus :
               (pc[u] \in ReturnPcs /\ pc'[u] \notin ReturnPcs)
                  => /\ last'.path = "raw"
                     /\ last'.ret = 0 <=> last'.wrote]_vars

\* C15 witness: before poking_init, patch_instruction has just written
\* directly and returned 0 on a cpu whose interrupts are on, the lock free.
C15_Witness ==
    /\ patching_mm = NullMm
    /\ last.op = "patch_instruction"
    /\ last.path = "raw"
    /\ last.wrote
    /\ last.ret = 0
    /\ irqs_on[last.cpu]
    /\ patching_lock = 0

\* What a finished do_patch_instruction leaves in its frame, whoever called
\* it: the direct write or its fault; no page-table slot; the failed hash
\* prefault; or the secure store or its fault, read back.
Outcome(fr) ==
    \/ /\ fr.path = "raw"
       /\ fr.readback = "none"
       /\ \/ fr.wrote /\ ~fr.faulted /\ fr.err = 0
          \/ ~fr.wrote /\ fr.faulted /\ fr.err = 0 - 14
    \/ fr.path = "nopte" /\ ~fr.wrote /\ fr.err = 0 - 1 /\ fr.readback = "none"
    \/ fr.path = "nohash" /\ ~fr.wrote /\ fr.err # 0 /\ fr.readback = "none"
    \/ /\ fr.path = "secure"
       /\ fr.readback # "none"
       /\ \/ fr.wrote /\ ~fr.faulted /\ fr.err = 0
          \/ ~fr.wrote /\ fr.faulted /\ fr.err = 0 - 14

\* C16: no step of a patch_instruction_unlocked or patch_branch_unlocked call
\* changes the holder of the patching lock or the cpu's interrupt state; with
\* the scratch context initialized the caller holds the lock with interrupts
\* off throughout and is back in its locked section on return; and the call
\* ends with the outcome, return value and memory a patch_instruction call
\* ends with.
C16_UnlockedKeepsLockAndIrqs ==
    [][\A u \in Cpus :
         /\ (frame[u].op \in UnlockedOps \/ frame'[u].op \in UnlockedOps)
               => /\ patching_lock' = patching_lock
                  /\ irqs_on'[u] = irqs_on[u]
                  /\ patching_mm # NullMm => patching_lock = u /\ ~irqs_on[u]
         /\ (pc[u] = "return_unlocked" /\ pc'[u] # "return_unlocked")
               => /\ pc'[u] = "locked"
                  /\ last'.ret = frame[u].err
         /\ (pc[u] \in ReturnPcs /\ pc'[u] \notin ReturnPcs)
               => /\ Outcome(frame[u])
                  /\ frame[u].wrote
                        => ppc_inst_equal(ppc_inst_read(mem', frame[u].addr),
                                          frame[u].instr)]_vars

\* C16 witness: patch_instruction_unlocked has just returned 0 from a secure
\* write, its caller still holding the lock with interrupts off.
C16_Witness ==
    /\ last.op = "patch_instruction_unlocked"
    /\ last.path = "secure"
    /\ last.wrote
    /\ last.ret = 0
    /\ patching_lock = last.cpu
    /\ ~irqs_on[last.cpu]
    /\ pc[last.cpu] = "locked"

\* The order of the events of a secure patch, as what holds of cpu u at each
\* program point: the lock is held with interrupts off from map_patch to the
\* return; the entry is installed before the switch into patching_mm; the
\* cpu is in patching_mm and its breakpoints are off before the store; the
\* entry is cleared after the store and before the flush; the translation is
\* flushed before the address space is restored; the address space is
\* restored before the breakpoints are; and a call that installed the entry
\* comes to its return, and so to the release of the lock, with all of it
\* done.
SecureOrderAt(u) ==
    LET fr == frame[u]
        at(S) == pc[u] \in S
        done == pc[u] \in ReturnPcs /\ fr.ptep
    IN  /\ (at(ScratchPcs \cup {"verify"}) \/ done)
              => patching_lock # 0 /\ ~irqs_on[u]
        /\ (at(ScratchPcs \cup {"verify"}) /\ fr.op \in LockedOps) => patching_lock = u
        /\ (done /\ fr.op \in LockedOps) => patching_lock = u
        /\ at({"use_temporary_mm", "disable_breakpoints", "hash_prefault_mapping",
               "__patch_instruction", "pte_clear"})
              => pte.valid /\ ptl = u
        /\ at({"map_patch", "use_temporary_mm"}) => active_mm[u] # PatchingMm
        /\ at({"disable_breakpoints", "hash_prefault_mapping", "__patch_instruction",
               "pte_clear", "local_flush_tlb_mm", "pte_unmap_unlock",
               "unuse_temporary_mm"})
              => active_mm[u] = PatchingMm
        /\ at({"hash_prefault_mapping", "__patch_instruction", "pte_clear",
               "local_flush_tlb_mm", "pte_unmap_unlock", "unuse_temporary_mm",
               "restore_breakpoints"})
              => (brk_available => \A i \in Slots : hw_brk[u][i].type = 0)
        /\ at({"map_patch", "use_temporary_mm", "disable_breakpoints",
               "hash_prefault_mapping", "__patch_instruction"})
              => ~fr.wrote /\ ~fr.faulted
        /\ at({"pte_clear", "local_flush_tlb_mm", "pte_unmap_unlock",
               "unuse_temporary_mm", "restore_breakpoints", "verify"})
              => fr.wrote \/ fr.faulted
        /\ (at({"local_flush_tlb_mm", "pte_unmap_unlock", "unuse_temporary_mm",
                "restore_breakpoints", "verify"}) \/ done)
              => ~pte.valid
        /\ at({"local_flush_tlb_mm", "pte_unmap_unlock"}) => ptl = u
        /\ (at({"pte_unmap_unlock", "unuse_temporary_mm", "restore_breakpoints",
                "verify"}) \/ done)
              => tlb[u] = NoFrame
        /\ (at({"restore_breakpoints", "verify"}) \/ done)
              => active_mm[u] = fr.prev /\ active_mm[u] # PatchingMm
        /\ (at({"verify"}) \/ done)
              => (brk_available =>
                     \A i \in Slots : fr.brk[i].type # 0 => hw_brk[u][i] = fr.brk[i])

\* C17: in every secure patch the events come in the stated order; in
\* particular a call that installed the scratch entry has cleared it and
\* flushed the translation before it restores the address space and before
\* it comes to release the lock.
C17_SecurePatchOrder == \A u \in Cpus : SecureOrderAt(u)

\* What holds of cpu u at its store, breakpoints aside: the store goes to the
\* scratch alias, a user address other than the target, which translates to
\* the target's page frame; the cpu holds the patching lock with interrupts
\* off and runs in patching_mm; the scratch entry maps the target's frame.
AtStore(u) ==
    LET fr == frame[u]
    IN  /\ fr.path = "secure"
        /\ patch_addr(fr.addr) # fr.addr
        /\ patch_addr(fr.addr) < DEFAULT_MAP_WINDOW
        /\ PAGE_MASK(patch_addr(fr.addr)) = patching_addr
        /\ AliasFrame(u, patch_addr(fr.addr)) = KernelPhys(fr.addr)[1]
        /\ patching_lock # 0
        /\ fr.op \in LockedOps => patching_lock = u
        /\ ~irqs_on[u]
        /\ active_mm[u] = PatchingMm
        /\ pte.valid
        /\ pte.pfn = KernelPhys(fr.addr)[1]

\* C18: once patching_mm is set, memory changes only by the store of a cpu
\* at __patch_instruction, and a cpu there stores through the alias under
\* the lock, interrupts off, in patching_mm, the entry mapping the target's
\* frame, with every breakpoint slot of the cpu null.
C18_StoreThroughAliasOnly ==
    [][patching_mm # NullMm =>
         /\ mem' # mem => \E u \in Cpus : pc[u] = "__patch_instruction" /\ frame'[u].wrote
         /\ \A u \in Cpus :
               pc[u] = "__patch_instruction"
                  => /\ AtStore(u)
                     /\ \A i \in Slots : hw_brk[u][i] = null_brk]_vars

\* C18 witness: a cpu that had a configured breakpoint is at its store in
\* patch_instruction, the slot nulled, the entry mapping the module page.
C18_Witness ==
    \E u \in Cpus :
        /\ pc[u] = "__patch_instruction"
        /\ frame[u].op = "patch_instruction"
        /\ frame[u].addr = ModHi
        /\ brk_available
        /\ \E i \in Slots : frame[u].brk[i].type # 0 /\ hw_brk[u][i] = null_brk
        /\ pte.pfn = 2

\* C19: after every patch call has returned, however it ended, the cpu runs
\* in the address space it ran in when the call began: a cpu that is in no
\* call runs in its own address space, never in patching_mm.
C19_AddressSpaceRestored ==
    \A u \in Cpus : pc[u] \in {"idle", "locked"} => active_mm[u] = MmOf(u)

\* C20: after every patch call has returned, however it ended, every
\* breakpoint slot of the cpu holds the value it held when the call began: on
\* a cpu that is in no call every slot holds its boot value.
C20_BreakpointsRestored ==
    \A u \in Cpus :
        pc[u] \in {"idle", "locked"} => \A i \in Slots : hw_brk[u][i] = BootBrk(u, i)

\* C21: no lock is left held: the page-table lock of patching_mm is held
\* only by a cpu between map_patch and the end of unmap_patch, and the
\* patching lock only by a cpu inside a patch call or inside the locked
\* section of a caller of the unlocked variants; so when patch_instruction
\* has returned both are free for the next call to take.
C21_NoLockLeftHeld ==
    /\ ptl # 0 => pc[ptl] \in ScratchPcs
    /\ patching_lock # 0 => pc[patching_lock] \notin {"idle", "lock_patching"}
    /\ (\A u \in Cpus : pc[u] = "idle") => ptl = 0 /\ patching_lock = 0

\* The displacement field of a word, sign-extended: bits 2 to 25 for the
\* unconditional family, bits 2 to 15 for the conditional one.
SignExt26(w) ==
    LET f == (w % 67108864) - (w % 4)
    IN  IF f >= 33554432 THEN f - 67108864 ELSE f

SignExt16(w) ==
    LET f == (w % 65536) - (w % 4)
    IN  IF f >= 32768 THEN f - 65536 ELSE f

\* Bit 0x2 of a word.
AbsoluteBit(w) == (w \div 2) % 2 = 1

\* The address a word at address a branches to, 0 for a word that is no
\* branch.
DecodedTarget(w, a) ==
    IF TopSix(w) = 18 THEN SignExt26(w) + (IF AbsoluteBit(w) THEN 0 ELSE a)
    ELSE IF TopSix(w) = 16 THEN SignExt16(w) + (IF AbsoluteBit(w) THEN 0 ELSE a)
    ELSE 0

\* C22: branch_target of an opcode-18 word at address a is the sign-extended
\* 26-bit displacement, plus a unless the absolute bit is set; of an opcode-16
\* word the sign-extended 16-bit displacement, plus a unless the absolute bit
\* is set; of any other word 0; and instr_is_branch_to_addr is false of a word
\* that is no branch for every queried address, 0 included, and of a branch
\* true exactly of its target.
C22_BranchTargetDecodes ==
    LET w == codec.word.val
    IN  /\ codec.fn = "branch_target" => codec.target = DecodedTarget(w, codec.addr)
        /\ codec.fn = "instr_is_branch_to_addr" =>
              codec.res <=> /\ TopSix(w) \in {16, 18}
                            /\ codec.dest = DecodedTarget(w, codec.addr)

\* C22 witness: branch_target of 0x43ff8001 (bcl .-0x8000) at 4096 is
\* 4096 - 0x8000.
C22_Witness ==
    /\ codec.fn = "branch_target"
    /\ codec.word.val = 1140817921
    /\ codec.addr = 4096
    /\ codec.target = 4096 - 32768

\* The program points of patch_instruction between its lock_patching and its
\* unlock_patching.
AfterLockPcs == {"do_patch_instruction", "verify", "unlock_patching"} \cup ScratchPcs

PageBytes ==
    {TextLo + o : o \in 0 .. PAGE_SIZE - 1}
        \cup {VMALLOC_START + o : o \in 0 .. PAGE_SIZE - 1}

\* C24: once poking_init has drawn it, patching_addr is page-aligned and lies
\* in [PAGE_SIZE, DEFAULT_MAP_WINDOW - PAGE_SIZE]; so for every target
\* address the alias patching_addr | offset_in_page(addr) is
\* patching_addr + offset_in_page(addr), lies in the page at patching_addr
\* and has the in-page offset of the target.
C24_ScratchAddressAligned ==
    patching_mm # NullMm =>
        /\ patching_addr % PAGE_SIZE = 0
        /\ PAGE_SIZE <= patching_addr
        /\ patching_addr <= DEFAULT_MAP_WINDOW - PAGE_SIZE
        /\ \A a \in PageBytes \cup Targets :
              /\ patch_addr(a) = patching_addr + offset_in_page(a)
              /\ patching_addr <= patch_addr(a)
              /\ patch_addr(a) < patching_addr + PAGE_SIZE
              /\ patch_addr(a) % PAGE_SIZE = a % PAGE_SIZE

\* C24 witness: the random value gave the highest scratch page the modulus
\* allows, and a cpu stores to the last word of the module page through the
\* alias, at the same in-page offset.
C24_Witness ==
    /\ patching_addr = DEFAULT_MAP_WINDOW - 2 * PAGE_SIZE
    /\ \E u \in Cpus :
         /\ pc[u] = "__patch_instruction"
         /\ frame[u].addr = ModHi
         /\ patch_addr(frame[u].addr) = patching_addr + PAGE_SIZE - 4

====
